---------------------------- MODULE Spec2Model ----------------------------
(***************************************************************************)
(* Model of gcs_cost_optimizer.py: the GCSCostOptimizer class (bucket      *)
(* scan, age cohorts, recommendation rules, apply loop, export) and main.  *)
(*                                                                         *)
(* Numbers.  The program computes costs in binary floating point:          *)
(* cost = (size_bytes / 1024**3) * rate.  The model holds every cost as    *)
(* the exact rational it stands for, written as an integer numerator over  *)
(* the fixed denominator 2^30 * 10^5 (bytes per GB times the price unit    *)
(* of 10^-5 dollars), so cost = size_bytes * price.  All prices are        *)
(* multiples of 10, which keeps cost * 0.3 an integer numerator too.       *)
(* cold_ratio is held as the fraction num/den and compared with the        *)
(* thresholds by cross-multiplication; for object counts below 10^15 the   *)
(* correctly rounded float quotient compares with the float literals       *)
(* 0.3, 0.7, 0.9 as the exact fraction does.                               *)
(*                                                                         *)
(* Time is counted in whole days, and a run of the program takes place    *)
(* within one day: every datetime.now() it reads is Now.                   *)
(***************************************************************************)
EXTENDS Integers, Sequences, FiniteSets, TLC

VARIABLES
    cloud,                \* the project's buckets at the storage provider
    args,                 \* parsed command line: apply, auto_approve, export
    pc,                   \* position of main / of the running method
    scan_i,               \* analyze_storage: index of the next bucket to scan
    buckets_data,         \* self.buckets_data
    total_current_cost,   \* self.total_current_cost
    total_optimized_cost, \* self.total_optimized_cost
    ai,                   \* apply_recommendations: index into buckets_data
    ri,                   \* apply_recommendations: index into recommendations
    last_apply,           \* what the apply loop printed for the last recommendation
    messages,             \* the top-level messages printed so far
    export_file,          \* the JSON file written by export_report, if any
    exit_code,            \* the value main returned, or Running
    runs,                 \* completed calls of analyze_storage
    first_report          \* the report as it stood after the first analyze_storage

vars == <<cloud, args, pc, scan_i, buckets_data, total_current_cost,
          total_optimized_cost, ai, ri, last_apply, messages, export_file,
          exit_code, runs, first_report>>

---------------------------------------------------------------------------
(* Bounds of the model *)

MaxBuckets == 2     \* buckets in a project (pipeline)
MaxSize == 2        \* size of one bucket in bytes (rule engine inputs)
MaxCount == 10      \* small cohort counts (rule engine inputs)
MaxBulk == 4        \* large cohort counts, in quarters of the versioning limit
MaxBlobs == 3       \* objects in a bucket (cohort classification)

---------------------------------------------------------------------------
(* Program constants *)

STANDARD == "STANDARD"
NEARLINE == "NEARLINE"
COLDLINE == "COLDLINE"
ARCHIVE == "ARCHIVE"

\* Price per GB and month, in units of 10^-5 dollars.
STORAGE_CLASS_PRICING ==
    [STANDARD |-> 2000, NEARLINE |-> 1000, COLDLINE |-> 400, ARCHIVE |-> 120]

ThirtyDays == 30
NinetyDays == 90
YearDays == 365
VersioningLimit == 1000

\* datetime.datetime.now(datetime.timezone.utc), in days.
Now == 2 * YearDays

\* A storage class STORAGE_CLASS_PRICING does not list.
UnknownClass == "MULTI_REGIONAL"

NoFile == <<>>
Running == "running"

---------------------------------------------------------------------------
(* _analyze_bucket: the loop over the objects of one bucket *)

\* hasattr(blob, 'time_created')
HasTimeCreated(blob) == "time_created" \in DOMAIN blob

\* The loop body with a test that lets an object created exactly thirty
\* days ago count as recent.
CountBlobInclusive(acc, blob, t) ==
    LET sized == [acc EXCEPT !.size_bytes = @ + blob.size]
        cohort == IF blob.time_created >= t - ThirtyDays THEN "recent"
                  ELSE IF blob.time_created > t - NinetyDays THEN "medium"
                  ELSE IF blob.time_created > t - YearDays THEN "rare"
                  ELSE "cold"
    IN  IF HasTimeCreated(blob)
        THEN [sized EXCEPT !.access_counts[cohort] = @ + 1]
        ELSE sized

\* The body of `for blob in blobs` for one blob: acc holds size_bytes and
\* access_counts.
CountBlob(acc, blob, t) ==
    LET sized == [acc EXCEPT !.size_bytes = @ + blob.size]
        cohort == IF blob.time_created > t - ThirtyDays THEN "recent"
                  ELSE IF blob.time_created > t - NinetyDays THEN "medium"
                  ELSE IF blob.time_created > t - YearDays THEN "rare"
                  ELSE "cold"
    IN  IF HasTimeCreated(blob)
        THEN [sized EXCEPT !.access_counts[cohort] = @ + 1]
        ELSE sized

\* e, once v has been evaluated.  Operator arguments are evaluated on
\* demand; a loop of a thousand iterations is evaluated in the loop's order.
AndThen(v, e) == IF v = v THEN e ELSE v

\* The loop over n consecutive equal blobs of the listing: the loop body
\* n times, the first half of the run and then the rest.
RECURSIVE CountRun(_, _, _, _)
CountRun(acc, blob, n, t) ==
    IF n = 0 THEN acc
    ELSE IF n = 1 THEN CountBlob(acc, blob, t)
    ELSE LET half == CountRun(acc, blob, n \div 2, t)
         IN  AndThen(half, CountRun(half, blob, n - (n \div 2), t))

\* The loop over the whole listing, which is kept run-length encoded: each
\* entry stands for `count` consecutive blobs equal to `blob`.
RECURSIVE CountBlobs(_, _, _, _)
CountBlobs(acc, blobs, i, t) ==
    IF i > Len(blobs) THEN acc
    ELSE CountBlobs(CountRun(acc, blobs[i].blob, blobs[i].count, t), blobs, i + 1, t)

\* len(blobs)
RECURSIVE ListingLen(_, _)
ListingLen(blobs, i) ==
    IF i > Len(blobs) THEN 0 ELSE blobs[i].count + ListingLen(blobs, i + 1)

\* STORAGE_CLASS_PRICING.get(storage_class, STORAGE_CLASS_PRICING['STANDARD'])
PricingGet(storage_class) ==
    IF storage_class \in DOMAIN STORAGE_CLASS_PRICING
    THEN STORAGE_CLASS_PRICING[storage_class]
    ELSE STORAGE_CLASS_PRICING[STANDARD]

\* size_gb * rate, as a numerator over 2^30 * 10^5.
Cost(size_bytes, rate) == size_bytes * rate

---------------------------------------------------------------------------
(* _generate_recommendations *)

Max(a, b) == IF a > b THEN a ELSE b

\* cold_ratio as the fraction num / den.
ColdRatio(bucket_data) ==
    [num |-> bucket_data.access_frequency.rare + bucket_data.access_frequency.cold,
     den |-> Max(bucket_data.object_count, 1)]

\* ratio > p / 10
RatioAbove(ratio, p) == ratio.num * 10 > p * ratio.den

\* current_cost * 0.3
ThreeTenths(cost) == (cost * 3) \div 10

\* The recommendation of a change of storage class.
ClassChange(bucket_data, new_class) ==
    LET new_cost == Cost(bucket_data.size_bytes, STORAGE_CLASS_PRICING[new_class])
        savings == bucket_data.current_cost - new_cost
    IN  [bucket_data EXCEPT
            !.recommendations = Append(@,
                [type |-> "storage_class",
                 action |-> <<"Change", "storage", "class", "from",
                              bucket_data.storage_class, "to", new_class>>,
                 savings |-> savings]),
            !.optimized_cost = new_cost]

\* StorageClassRule without its test of the current class.
StorageClassRuleAnyClass(bucket_data) ==
    LET cold_ratio == ColdRatio(bucket_data)
        freq == bucket_data.access_frequency
    IN  IF RatioAbove(cold_ratio, 7)
        THEN IF RatioAbove(cold_ratio, 9)
             THEN ClassChange(bucket_data,
                              IF freq.cold > freq.rare THEN ARCHIVE ELSE COLDLINE)
             ELSE ClassChange(bucket_data, NEARLINE)
        ELSE bucket_data

\* StorageClassRule sending a bucket with cold = rare to ARCHIVE.
StorageClassRuleTie(bucket_data) ==
    LET cold_ratio == ColdRatio(bucket_data)
        freq == bucket_data.access_frequency
    IN  IF bucket_data.storage_class = STANDARD /\ RatioAbove(cold_ratio, 7)
        THEN IF RatioAbove(cold_ratio, 9)
             THEN ClassChange(bucket_data,
                              IF freq.cold >= freq.rare THEN ARCHIVE ELSE COLDLINE)
             ELSE ClassChange(bucket_data, NEARLINE)
        ELSE bucket_data

\* Storage class recommendations.
StorageClassRule(bucket_data) ==
    LET cold_ratio == ColdRatio(bucket_data)
        freq == bucket_data.access_frequency
    IN  IF bucket_data.storage_class = STANDARD /\ RatioAbove(cold_ratio, 7)
        THEN IF RatioAbove(cold_ratio, 9)
             THEN ClassChange(bucket_data,
                              IF freq.cold > freq.rare THEN ARCHIVE ELSE COLDLINE)
             ELSE ClassChange(bucket_data, NEARLINE)
        ELSE bucket_data

\* LifecycleRule firing at coldRatio = 0.3 already.
LifecycleRuleAtThreshold(bucket_data) ==
    LET savings == ThreeTenths(bucket_data.current_cost)
        ratio == ColdRatio(bucket_data)
    IN  IF bucket_data.recommendations = <<>>
           /\ ratio.num * 10 >= 3 * ratio.den
        THEN [bucket_data EXCEPT
                !.recommendations = Append(@,
                    [type |-> "lifecycle",
                     action |-> <<"Implement", "lifecycle", "policy">>,
                     savings |-> savings]),
                !.optimized_cost = bucket_data.current_cost - savings]
        ELSE bucket_data

\* Lifecycle policy recommendations.
LifecycleRule(bucket_data) ==
    LET savings == ThreeTenths(bucket_data.current_cost)
    IN  IF bucket_data.recommendations = <<>>
           /\ RatioAbove(ColdRatio(bucket_data), 3)
        THEN [bucket_data EXCEPT
                !.recommendations = Append(@,
                    [type |-> "lifecycle",
                     action |-> <<"Implement", "lifecycle", "policy">>,
                     savings |-> savings]),
                !.optimized_cost = bucket_data.current_cost - savings]
        ELSE bucket_data

\* VersioningRule firing at 1000 objects already.
VersioningRuleAtLimit(bucket_data) ==
    IF bucket_data.object_count >= VersioningLimit
    THEN [bucket_data EXCEPT
            !.recommendations = Append(@,
                [type |-> "versioning",
                 action |-> <<"Review", "object", "versioning", "settings">>,
                 savings |-> 0])]
    ELSE bucket_data

\* Object versioning check.
VersioningRule(bucket_data) ==
    IF bucket_data.object_count > VersioningLimit
    THEN [bucket_data EXCEPT
            !.recommendations = Append(@,
                [type |-> "versioning",
                 action |-> <<"Review", "object", "versioning", "settings">>,
                 savings |-> 0])]
    ELSE bucket_data

\* bucket_data as _generate_recommendations leaves it.
GenerateRecommendations(bucket_data) ==
    LET start == [bucket_data EXCEPT !.optimized_cost = bucket_data.current_cost]
        done == VersioningRule(LifecycleRule(StorageClassRule(start)))
    IN  [done EXCEPT !.savings = done.current_cost - done.optimized_cost]

\* bucket_data with its current monthly cost.
WithCurrentCost(bucket_data) ==
    [bucket_data EXCEPT
        !.current_cost = Cost(bucket_data.size_bytes,
                              PricingGet(bucket_data.storage_class))]


\* Lines 139-146 of _analyze_bucket: the cost and the recommendations of a
\* scanned bucket.
CostAndRecommend(bucket_data) == GenerateRecommendations(WithCurrentCost(bucket_data))

---------------------------------------------------------------------------
(* The report *)

\* The report export_report builds (project_id, generated_at and the
\* derived savings_percent are left out).
Report(data, current, optimized) ==
    [total_buckets |-> Len(data),
     total_current_cost |-> current,
     total_optimized_cost |-> optimized,
     total_savings |-> current - optimized,
     buckets |-> data]

NoReport == "no report"

---------------------------------------------------------------------------
(* The storage provider and the inputs *)

BucketNames == <<"bucket-1", "bucket-2", "bucket-3", "bucket-4">>

\* A lifecycle configuration a bucket may have before the run.
OldRules == <<[action |-> [type |-> "Delete"], condition |-> [age |-> 7]]>>
NoRules == <<>>

\* The rules apply_recommendations installs.
FixedRules ==
    <<[action |-> [type |-> "SetStorageClass", storageClass |-> NEARLINE],
       condition |-> [age |-> ThirtyDays]],
      [action |-> [type |-> "SetStorageClass", storageClass |-> COLDLINE],
       condition |-> [age |-> NinetyDays]],
      [action |-> [type |-> "SetStorageClass", storageClass |-> ARCHIVE],
       condition |-> [age |-> YearDays]]>>

Blob(size, age) == [size |-> size, time_created |-> Now - age]
UntimedBlob(size) == [size |-> size]

Run(blob, n) == IF n = 0 THEN <<>> ELSE <<[blob |-> blob, count |-> n]>>

\* Listings of the pipeline: year-old and new objects, none, one or a
\* thousand of each.
RunCounts == {0, 1, VersioningLimit}
PipelineListings ==
    {Run(Blob(1, YearDays), a) \o Run(Blob(1, 0), b) : a \in RunCounts, b \in RunCounts}

\* Listings of the cohort classification: up to MaxBlobs single objects, of
\* every age around the three boundaries, or without a creation time.
BoundaryAges ==
    UNION {{d - 1, d, d + 1} : d \in {ThirtyDays, NinetyDays, YearDays}}
CohortBlobs == {Blob(1, a) : a \in BoundaryAges} \cup {UntimedBlob(1)}
RECURSIVE ListingsUpTo(_)
ListingsUpTo(n) ==
    IF n = 0 THEN {<<>>}
    ELSE ListingsUpTo(n - 1) \cup
         {l \o Run(b, 1) : l \in ListingsUpTo(n - 1), b \in CohortBlobs}
CohortListings == ListingsUpTo(MaxBlobs)

\* The projects of up to n buckets, all of one storage class and one
\* lifecycle configuration, each with a listing of its own.
RECURSIVE ProjectsUpTo(_, _, _, _)
ProjectsUpTo(n, listings, c, r) ==
    IF n = 0 THEN {<<>>}
    ELSE ProjectsUpTo(n - 1, listings, c, r) \cup
         {Append(p, [name |-> BucketNames[Len(p) + 1],
                     storage_class |-> c,
                     lifecycle_rules |-> r,
                     blobs |-> l]) :
            p \in ProjectsUpTo(n - 1, listings, c, r), l \in listings}

Projects(n, listings, classes, rules) ==
    UNION {ProjectsUpTo(n, listings, c, r) : c \in classes, r \in rules}

Args == [apply : BOOLEAN, auto_approve : BOOLEAN, export : BOOLEAN]

\* What the user may type at the prompt.
Answers == {"y", "Y", "n", ""}

\* str.lower()
Lower(s) == IF s = "Y" THEN "y" ELSE s

\* Nothing printed by the apply loop yet.
NoApply ==
    [entry |-> 0, bucket |-> "", rec |-> 0, asked |-> FALSE, response |-> "",
     outcome |-> "none"]

---------------------------------------------------------------------------
(* _analyze_bucket *)

\* size_bytes and access_counts after `for blob in blobs`, for every
\* listing of the model (computed once for each listing).
ScanOf ==
    [l \in PipelineListings \cup CohortListings |->
        CountBlobs([size_bytes |-> 0,
                    access_counts |-> [recent |-> 0, medium |-> 0,
                                       rare |-> 0, cold |-> 0]],
                   l, 1, Now)]

\* bucket_data as _analyze_bucket holds it before the cost is computed.
ScanBucket(bucket) ==
    [name |-> bucket.name,
     storage_class |-> bucket.storage_class,
     size_bytes |-> ScanOf[bucket.blobs].size_bytes,
     object_count |-> ListingLen(bucket.blobs, 1),
     access_frequency |-> ScanOf[bucket.blobs].access_counts,
     current_cost |-> 0,
     recommendations |-> <<>>,
     optimized_cost |-> 0,
     savings |-> 0]

\* The whole of _analyze_bucket, as the entry appended to buckets_data.
AnalyzeBucketData(bucket) == CostAndRecommend(ScanBucket(bucket))

---------------------------------------------------------------------------
(* Initial state: main has parsed the arguments and built the optimizer *)

InitOptimizer ==
    /\ pc = "analyze"
    /\ scan_i = 0
    /\ buckets_data = <<>>
    /\ total_current_cost = 0
    /\ total_optimized_cost = 0
    /\ ai = 0
    /\ ri = 0
    /\ last_apply = NoApply
    /\ messages = {}
    /\ export_file = NoFile
    /\ exit_code = Running
    /\ runs = 0
    /\ first_report = NoReport

Init ==
    /\ cloud \in Projects(MaxBuckets, PipelineListings, {STANDARD}, {NoRules, OldRules})
    /\ args \in Args
    /\ InitOptimizer

---------------------------------------------------------------------------
(* main: any exception that reaches it is printed and main returns 1 *)

MainFails ==
    /\ pc' = "exit"
    /\ exit_code' = 1
    /\ messages' = messages \cup {"error"}

\* analyze_storage returns to its caller.
AnalysisReturns ==
    /\ pc' = "display"
    /\ runs' = runs + 1
    /\ first_report' = IF runs = 0
                       THEN Report(buckets_data, total_current_cost, total_optimized_cost)
                       ELSE first_report

---------------------------------------------------------------------------
(* analyze_storage *)

\* list_buckets raises.
ListBucketsFails ==
    /\ pc = "analyze"
    /\ MainFails
    /\ UNCHANGED <<cloud, args, scan_i, buckets_data, total_current_cost,
                   total_optimized_cost, ai, ri, last_apply, export_file, runs,
                   first_report>>

\* The project has no buckets.
ListBucketsEmpty ==
    /\ pc = "analyze"
    /\ cloud = <<>>
    /\ messages' = messages \cup {"no_buckets_found"}
    /\ AnalysisReturns
    /\ UNCHANGED <<cloud, args, scan_i, buckets_data, total_current_cost,
                   total_optimized_cost, ai, ri, last_apply, export_file, exit_code>>

ListBucketsFound ==
    /\ pc = "analyze"
    /\ cloud # <<>>
    /\ messages' = messages \cup {"found_buckets"}
    /\ scan_i' = 1
    /\ pc' = "scan"
    /\ UNCHANGED <<cloud, args, buckets_data, total_current_cost,
                   total_optimized_cost, ai, ri, last_apply, export_file, exit_code,
                   runs, first_report>>

\* _analyze_bucket assigning the totals where it should add to them.
AnalyzeBucketAssigns ==
    /\ pc = "scan"
    /\ scan_i <= Len(cloud)
    /\ LET bucket_data == AnalyzeBucketData(cloud[scan_i])
       IN  /\ total_current_cost' = bucket_data.current_cost
           /\ total_optimized_cost' = bucket_data.optimized_cost
           /\ buckets_data' = Append(buckets_data, bucket_data)
    /\ scan_i' = scan_i + 1
    /\ UNCHANGED <<cloud, args, pc, ai, ri, last_apply, messages, export_file,
                   exit_code, runs, first_report>>

\* One iteration of `for bucket in buckets`: _analyze_bucket.
AnalyzeBucket ==
    /\ pc = "scan"
    /\ scan_i <= Len(cloud)
    /\ LET bucket_data == AnalyzeBucketData(cloud[scan_i])
       IN  /\ total_current_cost' = total_current_cost + bucket_data.current_cost
           /\ total_optimized_cost' = total_optimized_cost + bucket_data.optimized_cost
           /\ buckets_data' = Append(buckets_data, bucket_data)
    /\ scan_i' = scan_i + 1
    /\ UNCHANGED <<cloud, args, pc, ai, ri, last_apply, messages, export_file,
                   exit_code, runs, first_report>>

\* list_blobs raises in _analyze_bucket, before anything is recorded.
ListBlobsFails ==
    /\ pc = "scan"
    /\ scan_i <= Len(cloud)
    /\ MainFails
    /\ UNCHANGED <<cloud, args, scan_i, buckets_data, total_current_cost,
                   total_optimized_cost, ai, ri, last_apply, export_file, runs,
                   first_report>>

AnalysisComplete ==
    /\ pc = "scan"
    /\ scan_i > Len(cloud)
    /\ messages' = messages \cup {"analysis_complete"}
    /\ AnalysisReturns
    /\ UNCHANGED <<cloud, args, scan_i, buckets_data, total_current_cost,
                   total_optimized_cost, ai, ri, last_apply, export_file, exit_code>>

---------------------------------------------------------------------------
(* display_results *)

DisplayResults ==
    /\ pc = "display"
    /\ messages' = messages \cup
           {IF buckets_data = <<>> THEN "no_data_to_display" ELSE "report"}
    /\ pc' = "main_apply"
    /\ UNCHANGED <<cloud, args, scan_i, buckets_data, total_current_cost,
                   total_optimized_cost, ai, ri, last_apply, export_file, exit_code,
                   runs, first_report>>

---------------------------------------------------------------------------
(* apply_recommendations *)

\* main: --apply was not given.
MainSkipApply ==
    /\ pc = "main_apply"
    /\ ~args.apply
    /\ pc' = "main_export"
    /\ UNCHANGED <<cloud, args, scan_i, buckets_data, total_current_cost,
                   total_optimized_cost, ai, ri, last_apply, messages, export_file,
                   exit_code, runs, first_report>>

ApplyNothing ==
    /\ pc = "main_apply"
    /\ args.apply
    /\ buckets_data = <<>>
    /\ messages' = messages \cup {"no_recommendations_to_apply"}
    /\ pc' = "main_export"
    /\ UNCHANGED <<cloud, args, scan_i, buckets_data, total_current_cost,
                   total_optimized_cost, ai, ri, last_apply, export_file, exit_code,
                   runs, first_report>>

ApplyBegin ==
    /\ pc = "main_apply"
    /\ args.apply
    /\ buckets_data # <<>>
    /\ messages' = messages \cup {"applying_recommendations"}
    /\ ai' = 1
    /\ ri' = 1
    /\ pc' = "apply_loop"
    /\ UNCHANGED <<cloud, args, scan_i, buckets_data, total_current_cost,
                   total_optimized_cost, last_apply, export_file, exit_code, runs,
                   first_report>>

\* `if not bucket_data['recommendations']: continue`
ApplySkipBucket ==
    /\ pc = "apply_loop"
    /\ ai <= Len(buckets_data)
    /\ buckets_data[ai].recommendations = <<>>
    /\ ai' = ai + 1
    /\ ri' = 1
    /\ UNCHANGED <<cloud, args, pc, scan_i, buckets_data, total_current_cost,
                   total_optimized_cost, last_apply, messages, export_file,
                   exit_code, runs, first_report>>

\* Approved with only the answer 'n' declining.
ApprovedUnlessNo(auto_approve, answer) == auto_approve \/ Lower(answer) # "n"

\* A recommendation is applied when --auto-approve is set or the answer,
\* lower-cased, is 'y'.
Approved(auto_approve, answer) == auto_approve \/ Lower(answer) = "y"

\* rec['action'].split(' ')[-1]
LastWord(action) == action[Len(action)]

\* get_bucket(name), one property set, patch(): the bucket at the provider.
PatchBucket(c, name, new_class, new_rules) ==
    [i \in DOMAIN c |->
        IF c[i].name = name
        THEN [c[i] EXCEPT !.storage_class = IF new_class = "" THEN @ ELSE new_class,
                          !.lifecycle_rules = IF new_rules = <<>> THEN @ ELSE new_rules]
        ELSE c[i]]

\* The try block when nothing in it raises, for one approved or declined
\* recommendation: the provider's state after it, and what was printed.
ApplyOne(c, name, rec, approved) ==
    IF ~approved THEN [cloud |-> c, outcome |-> "skipped"]
    ELSE CASE rec.type = "storage_class" ->
                [cloud |-> PatchBucket(c, name, LastWord(rec.action), <<>>),
                 outcome |-> "changed_storage_class"]
           [] rec.type = "lifecycle" ->
                [cloud |-> PatchBucket(c, name, "", FixedRules),
                 outcome |-> "added_lifecycle_rules"]
           [] rec.type = "versioning" ->
                [cloud |-> c, outcome |-> "manual_review_required"]
           [] OTHER -> [cloud |-> c, outcome |-> "nothing"]

\* What the loop printed for the recommendation it is at.
ApplyLine(answer, outcome) ==
    [entry |-> ai,
     bucket |-> buckets_data[ai].name,
     rec |-> ri,
     asked |-> ~args.auto_approve,
     response |-> IF args.auto_approve THEN "" ELSE answer,
     outcome |-> outcome]

\* The two nested loops move to the next recommendation, or past the
\* last one of the bucket to the next bucket.
NextRec ==
    IF ri < Len(buckets_data[ai].recommendations)
    THEN ai' = ai /\ ri' = ri + 1
    ELSE ai' = ai + 1 /\ ri' = 1

\* One iteration of `for rec in bucket_data['recommendations']` in which
\* nothing raises.
ApplyRec ==
    /\ pc = "apply_loop"
    /\ ai <= Len(buckets_data)
    /\ buckets_data[ai].recommendations # <<>>
    /\ \E answer \in Answers :
         LET res == ApplyOne(cloud, buckets_data[ai].name,
                             buckets_data[ai].recommendations[ri],
                             Approved(args.auto_approve, answer))
         IN  /\ cloud' = res.cloud
             /\ last_apply' = ApplyLine(answer, res.outcome)
    /\ NextRec
    /\ UNCHANGED <<args, pc, scan_i, buckets_data, total_current_cost,
                   total_optimized_cost, messages, export_file, exit_code, runs,
                   first_report>>

\* An iteration in which get_bucket or patch raises, without the except
\* clause: the exception reaches main.
ApplyRecRaisesUncaught ==
    /\ pc = "apply_loop"
    /\ ai <= Len(buckets_data)
    /\ buckets_data[ai].recommendations # <<>>
    /\ buckets_data[ai].recommendations[ri].type \in {"storage_class", "lifecycle"}
    /\ \E answer \in Answers : Approved(args.auto_approve, answer)
    /\ MainFails
    /\ UNCHANGED <<cloud, args, scan_i, buckets_data, total_current_cost,
                   total_optimized_cost, ai, ri, last_apply, export_file, runs,
                   first_report>>

\* One iteration in which get_bucket or patch raises: the except clause
\* prints the error and the loop goes on.  Nothing was patched.
ApplyRecRaises ==
    /\ pc = "apply_loop"
    /\ ai <= Len(buckets_data)
    /\ buckets_data[ai].recommendations # <<>>
    /\ buckets_data[ai].recommendations[ri].type \in {"storage_class", "lifecycle"}
    /\ \E answer \in Answers :
         /\ Approved(args.auto_approve, answer)
         /\ last_apply' = ApplyLine(answer, "error")
    /\ NextRec
    /\ UNCHANGED <<cloud, args, pc, scan_i, buckets_data, total_current_cost,
                   total_optimized_cost, messages, export_file, exit_code, runs,
                   first_report>>

ApplyEnd ==
    /\ pc = "apply_loop"
    /\ ai > Len(buckets_data)
    /\ messages' = messages \cup {"recommendations_applied"}
    /\ pc' = "main_export"
    /\ UNCHANGED <<cloud, args, scan_i, buckets_data, total_current_cost,
                   total_optimized_cost, ai, ri, last_apply, export_file, exit_code,
                   runs, first_report>>

---------------------------------------------------------------------------
(* export_report and the end of main *)

\* main: --export was not given; main returns 0.
MainSkipExport ==
    /\ pc = "main_export"
    /\ ~args.export
    /\ pc' = "exit"
    /\ exit_code' = 0
    /\ UNCHANGED <<cloud, args, scan_i, buckets_data, total_current_cost,
                   total_optimized_cost, ai, ri, last_apply, messages, export_file,
                   runs, first_report>>

ExportNothing ==
    /\ pc = "main_export"
    /\ args.export
    /\ buckets_data = <<>>
    /\ messages' = messages \cup {"no_data_to_export"}
    /\ pc' = "exit"
    /\ exit_code' = 0
    /\ UNCHANGED <<cloud, args, scan_i, buckets_data, total_current_cost,
                   total_optimized_cost, ai, ri, last_apply, export_file, runs,
                   first_report>>

ExportReport ==
    /\ pc = "main_export"
    /\ args.export
    /\ buckets_data # <<>>
    /\ export_file' = <<Report(buckets_data, total_current_cost, total_optimized_cost)>>
    /\ messages' = messages \cup {"report_exported"}
    /\ pc' = "exit"
    /\ exit_code' = 0
    /\ UNCHANGED <<cloud, args, scan_i, buckets_data, total_current_cost,
                   total_optimized_cost, ai, ri, last_apply, runs, first_report>>

\* open(filename, 'w') raises.
ExportFails ==
    /\ pc = "main_export"
    /\ args.export
    /\ buckets_data # <<>>
    /\ MainFails
    /\ UNCHANGED <<cloud, args, scan_i, buckets_data, total_current_cost,
                   total_optimized_cost, ai, ri, last_apply, export_file, runs,
                   first_report>>

---------------------------------------------------------------------------
(* The program *)

Next ==
    \/ ListBucketsFails
    \/ ListBucketsEmpty
    \/ ListBucketsFound
    \/ AnalyzeBucket
    \/ ListBlobsFails
    \/ AnalysisComplete
    \/ DisplayResults
    \/ MainSkipApply
    \/ ApplyNothing
    \/ ApplyBegin
    \/ ApplySkipBucket
    \/ ApplyRec
    \/ ApplyRecRaises
    \/ ApplyEnd
    \/ MainSkipExport
    \/ ExportNothing
    \/ ExportReport
    \/ ExportFails

Spec == Init /\ [][Next]_vars

\* The steps of the loop of apply_recommendations.
ApplyLoop == ApplySkipBucket \/ ApplyRec \/ ApplyRecRaises \/ ApplyEnd

\* The runs of main with --apply and without --export, in which the loop of
\* apply_recommendations runs on: its steps wait for nothing but the
\* provider and the user, who answer.
InitApply == Init /\ args.apply /\ ~args.export

NextApply ==
    \/ ListBucketsFails
    \/ ListBucketsEmpty
    \/ ListBucketsFound
    \/ AnalyzeBucket
    \/ ListBlobsFails
    \/ AnalysisComplete
    \/ DisplayResults
    \/ ApplyNothing
    \/ ApplyBegin
    \/ ApplySkipBucket
    \/ ApplyRec
    \/ ApplyRecRaises
    \/ ApplyEnd
    \/ MainSkipExport

FairSpec == InitApply /\ [][NextApply]_vars /\ WF_vars(ApplyLoop)

---------------------------------------------------------------------------
(* analyze_storage called again on the same optimizer, as the last message *)
(* of apply_recommendations and the messages of display_results and        *)
(* export_report ask for ("Run analyze_storage() again", "Run              *)
(* analyze_storage() first"), here before anything was applied.            *)

MaxRuns == 2

AnalyzeAgain ==
    /\ pc = "display"
    /\ runs < MaxRuns
    /\ pc' = "analyze"
    /\ UNCHANGED <<cloud, args, scan_i, buckets_data, total_current_cost,
                   total_optimized_cost, ai, ri, last_apply, messages, export_file,
                   exit_code, runs, first_report>>

NextRerun == Next \/ AnalyzeAgain

SpecRerun == Init /\ [][NextRerun]_vars

---------------------------------------------------------------------------
(* _analyze_bucket alone, on buckets whose objects have every age around   *)
(* the cohort boundaries                                                   *)

InitClassify ==
    /\ cloud \in Projects(1, CohortListings, {STANDARD}, {NoRules})
    /\ args = [apply |-> FALSE, auto_approve |-> FALSE, export |-> FALSE]
    /\ InitOptimizer

NextClassify ==
    \/ ListBucketsFails
    \/ ListBucketsEmpty
    \/ ListBucketsFound
    \/ AnalyzeBucket
    \/ ListBlobsFails
    \/ AnalysisComplete

SpecClassify == InitClassify /\ [][NextClassify]_vars

---------------------------------------------------------------------------
(* The rule engine alone: lines 139-148 and _generate_recommendations on   *)
(* a scanned bucket of any storage class, size and cohort counts.          *)

StorageClasses == {STANDARD, NEARLINE, COLDLINE, ARCHIVE, UnknownClass}

\* Cohort counts: the small ones, and quarters of the versioning limit.
CountSet == (0..MaxCount) \cup {k * (VersioningLimit \div 4) : k \in 1..MaxBulk}

\* bucket_data after the loop over the objects.  The objects that are
\* neither rare nor cold are taken as recent; an empty bucket has no bytes.
Scanned(storage_class, size_bytes, recent, rare, cold) ==
    [name |-> BucketNames[1],
     storage_class |-> storage_class,
     size_bytes |-> size_bytes,
     object_count |-> recent + rare + cold,
     access_frequency |-> [recent |-> recent, medium |-> 0,
                           rare |-> rare, cold |-> cold],
     current_cost |-> 0,
     recommendations |-> <<>>,
     optimized_cost |-> 0,
     savings |-> 0]

InitRules ==
    /\ cloud = <<>>
    /\ args = [apply |-> FALSE, auto_approve |-> FALSE, export |-> FALSE]
    /\ InitOptimizer

RuleEngine ==
    /\ pc = "analyze"
    /\ buckets_data = <<>>
    /\ \E c \in StorageClasses, size_bytes \in 0..MaxSize,
          recent \in CountSet, rare \in CountSet, cold \in CountSet :
         /\ recent + rare + cold = 0 => size_bytes = 0
         /\ LET bucket_data == CostAndRecommend(Scanned(c, size_bytes, recent, rare, cold))
            IN  /\ total_current_cost' = total_current_cost + bucket_data.current_cost
                /\ total_optimized_cost' = total_optimized_cost + bucket_data.optimized_cost
                /\ buckets_data' = Append(buckets_data, bucket_data)
    /\ UNCHANGED <<cloud, args, pc, scan_i, ai, ri, last_apply, messages,
                   export_file, exit_code, runs, first_report>>

SpecRules == InitRules /\ [][RuleEngine]_vars

---------------------------------------------------------------------------
(* Properties.  What the claims speak of, read off the state. *)

RecsOfType(bucket_data, type) ==
    SelectSeq(bucket_data.recommendations, LAMBDA rec : rec.type = type)

\* rare + cold, and max(objectCount, 1): coldRatio is their quotient.
ColdObjects(bucket_data) ==
    bucket_data.access_frequency.rare + bucket_data.access_frequency.cold
CountedObjects(bucket_data) ==
    IF bucket_data.object_count >= 1 THEN bucket_data.object_count ELSE 1

\* The target tier a tier-change recommendation names.
Target(rec) == rec.action[Len(rec.action)]

\* C1: for every bucket that went through _generate_recommendations,
\* optimized_cost <= current_cost, and the bucket's savings is not negative.
CostNeverIncreases ==
    \A i \in DOMAIN buckets_data :
        /\ buckets_data[i].optimized_cost <= buckets_data[i].current_cost
        /\ buckets_data[i].savings >= 0

\* C1 happens: an ARCHIVE bucket, the cheapest tier, got a recommendation
\* that lowers its cost.
CostNeverIncreasesWitness ==
    \E i \in DOMAIN buckets_data :
        /\ buckets_data[i].storage_class = ARCHIVE
        /\ buckets_data[i].recommendations # <<>>
        /\ buckets_data[i].optimized_cost < buckets_data[i].current_cost

\* C2: a STANDARD bucket with coldRatio > 0.9 gets exactly one tier-change,
\* to ARCHIVE if cold > rare and to COLDLINE otherwise; with
\* 0.7 < coldRatio <= 0.9 exactly one, to NEARLINE; in both cases
\* optimizedCost = size x rate(target) and the recommendation's savings =
\* currentCost - optimizedCost.  Any other bucket gets no tier-change.
TierChangeRule ==
    \A i \in DOMAIN buckets_data :
        LET bd == buckets_data[i]
            tier == RecsOfType(bd, "storage_class")
            num == ColdObjects(bd)
            den == CountedObjects(bd)
            Priced(target) ==
                /\ Len(tier) = 1
                /\ Target(tier[1]) = target
                /\ bd.optimized_cost = bd.size_bytes * STORAGE_CLASS_PRICING[target]
                /\ tier[1].savings = bd.current_cost - bd.optimized_cost
        IN  /\ (bd.storage_class = STANDARD /\ 10 * num > 9 * den)
                => Priced(IF bd.access_frequency.cold > bd.access_frequency.rare
                          THEN ARCHIVE ELSE COLDLINE)
            /\ (bd.storage_class = STANDARD /\ 10 * num > 7 * den /\ 10 * num <= 9 * den)
                => Priced(NEARLINE)
            /\ (bd.storage_class # STANDARD \/ 10 * num <= 7 * den)
                => tier = <<>>

\* C2 happens: a STANDARD bucket with coldRatio > 0.9 and cold = rare was
\* sent to COLDLINE.
TierChangeRuleWitness ==
    \E i \in DOMAIN buckets_data :
        LET bd == buckets_data[i]
        IN  /\ bd.storage_class = STANDARD
            /\ bd.size_bytes > 0
            /\ bd.access_frequency.cold = bd.access_frequency.rare
            /\ 10 * ColdObjects(bd) > 9 * CountedObjects(bd)
            /\ Len(bd.recommendations) >= 1
            /\ bd.recommendations[1].type = "storage_class"
            /\ Target(bd.recommendations[1]) = COLDLINE

\* C3: a bucket of any tier without a tier-change and with coldRatio > 0.3
\* gets exactly one lifecycle-policy recommendation, with savings =
\* 0.3 x currentCost and optimizedCost = currentCost - savings; with
\* coldRatio <= 0.3 or with a tier-change it gets none, so the two kinds
\* never appear together.
LifecyclePolicyRule ==
    \A i \in DOMAIN buckets_data :
        LET bd == buckets_data[i]
            tier == RecsOfType(bd, "storage_class")
            life == RecsOfType(bd, "lifecycle")
            num == ColdObjects(bd)
            den == CountedObjects(bd)
        IN  /\ (tier = <<>> /\ 10 * num > 3 * den)
                => /\ Len(life) = 1
                   /\ 10 * life[1].savings = 3 * bd.current_cost
                   /\ bd.optimized_cost = bd.current_cost - life[1].savings
            /\ (tier # <<>> \/ 10 * num <= 3 * den) => life = <<>>
            /\ ~(tier # <<>> /\ life # <<>>)

\* C3 happens: a bucket of a tier the price table does not list got the
\* lifecycle-policy recommendation, with savings.
LifecyclePolicyRuleWitness ==
    \E i \in DOMAIN buckets_data :
        LET bd == buckets_data[i]
        IN  /\ bd.storage_class = UnknownClass
            /\ Len(bd.recommendations) >= 1
            /\ bd.recommendations[1].type = "lifecycle"
            /\ bd.recommendations[1].savings > 0

\* C4: a versioning-review recommendation is in the list exactly when
\* objectCount > 1000; it is then the last entry, with savings 0, and the
\* bucket's optimizedCost and savings are those the tier-change or the
\* lifecycle-policy recommendation (or neither) gives.
VersioningReviewRule ==
    \A i \in DOMAIN buckets_data :
        LET bd == buckets_data[i]
            recs == bd.recommendations
            tier == RecsOfType(bd, "storage_class")
            life == RecsOfType(bd, "lifecycle")
            review == RecsOfType(bd, "versioning")
        IN  /\ (review # <<>>) <=> (bd.object_count > 1000)
            /\ review # <<>>
                => /\ Len(review) = 1
                   /\ recs[Len(recs)].type = "versioning"
                   /\ recs[Len(recs)].savings = 0
            /\ bd.optimized_cost =
                  IF tier # <<>>
                  THEN bd.size_bytes * STORAGE_CLASS_PRICING[Target(tier[1])]
                  ELSE IF life # <<>> THEN bd.current_cost - life[1].savings
                  ELSE bd.current_cost
            /\ bd.savings = bd.current_cost - bd.optimized_cost

\* C4 happens: a bucket of more than 1000 objects got a tier-change and,
\* after it, the versioning review.
VersioningReviewRuleWitness ==
    \E i \in DOMAIN buckets_data :
        LET bd == buckets_data[i]
        IN  /\ bd.object_count > 1000
            /\ bd.size_bytes > 0
            /\ Len(bd.recommendations) = 2
            /\ bd.recommendations[1].type = "storage_class"
            /\ bd.recommendations[2].type = "versioning"

---------------------------------------------------------------------------
(* Properties of the scan and of the totals *)

\* The number of objects of a listing in the runs S.
RECURSIVE ObjectsIn(_, _)
ObjectsIn(blobs, S) ==
    IF S = {} THEN 0
    ELSE LET k == CHOOSE k \in S : TRUE
         IN  blobs[k].count + ObjectsIn(blobs, S \ {k})

\* The runs of objects that have a creation timestamp, and those of them
\* created after day `from` and not after day `to`.
Timed(blobs) == {k \in DOMAIN blobs : "time_created" \in DOMAIN blobs[k].blob}
CreatedIn(blobs, from, to) ==
    {k \in Timed(blobs) :
        blobs[k].blob.time_created > from /\ blobs[k].blob.time_created <= to}

\* C9: every object with a creation timestamp is counted in exactly one
\* cohort (recent if created > now-30d, else medium if > now-90d, else rare
\* if > now-365d, else cold, an object at a boundary going to the older
\* cohort), an object without one in none; the four counts add up to the
\* object count less the objects without a timestamp, and coldRatio <= 1.
CohortCounts ==
    \A i \in DOMAIN buckets_data :
        LET bd == buckets_data[i]
            f == bd.access_frequency
            l == cloud[i].blobs
        IN  /\ f.recent = ObjectsIn(l, CreatedIn(l, Now - 30, Now))
            /\ f.medium = ObjectsIn(l, CreatedIn(l, Now - 90, Now - 30))
            /\ f.rare = ObjectsIn(l, CreatedIn(l, Now - 365, Now - 90))
            /\ f.cold = ObjectsIn(l, {k \in Timed(l) : l[k].blob.time_created <= Now - 365})
            /\ bd.object_count = ObjectsIn(l, DOMAIN l)
            /\ f.recent + f.medium + f.rare + f.cold
                  = bd.object_count - ObjectsIn(l, DOMAIN l \ Timed(l))
            /\ f.rare + f.cold <= CountedObjects(bd)

\* C9 happens: a bucket was scanned that holds an object without a
\* timestamp, one created exactly 30 days ago (medium) and one created
\* exactly 365 days ago (cold).
CohortCountsWitness ==
    \E i \in DOMAIN buckets_data :
        LET bd == buckets_data[i]
            l == cloud[i].blobs
        IN  /\ Timed(l) # DOMAIN l
            /\ \E k \in Timed(l) : l[k].blob.time_created = Now - 30
            /\ \E k \in Timed(l) : l[k].blob.time_created = Now - 365
            /\ bd.object_count = 3
            /\ bd.access_frequency =
                  [recent |-> 0, medium |-> 1, rare |-> 0, cold |-> 1]

RECURSIVE SumCurrent(_)
SumCurrent(data) ==
    IF data = <<>> THEN 0 ELSE data[1].current_cost + SumCurrent(Tail(data))
RECURSIVE SumOptimized(_)
SumOptimized(data) ==
    IF data = <<>> THEN 0 ELSE data[1].optimized_cost + SumOptimized(Tail(data))
RECURSIVE SumSavings(_)
SumSavings(data) ==
    IF data = <<>> THEN 0 ELSE data[1].savings + SumSavings(Tail(data))

\* C7: after every completed _analyze_bucket, total_current_cost is the
\* sum of current_cost and total_optimized_cost the sum of optimized_cost
\* over buckets_data, so the total savings is the sum of the buckets'
\* savings.
TotalsAreSums ==
    /\ total_current_cost = SumCurrent(buckets_data)
    /\ total_optimized_cost = SumOptimized(buckets_data)
    /\ total_current_cost - total_optimized_cost = SumSavings(buckets_data)

\* C7 happens: two buckets with a cost were analyzed, one of them with
\* savings.
TotalsAreSumsWitness ==
    /\ Len(buckets_data) = 2
    /\ buckets_data[1].current_cost > 0
    /\ buckets_data[2].current_cost > 0
    /\ buckets_data[1].savings # buckets_data[2].savings
    /\ total_current_cost > total_optimized_cost

---------------------------------------------------------------------------
(* Properties of apply_recommendations *)

\* The recommendation the apply loop is at.
AtRec == buckets_data[ai].recommendations[ri]

\* The step processed the recommendation the loop was at.
Processes == pc = "apply_loop" /\ ai <= Len(buckets_data)
             /\ last_apply'.entry = ai /\ last_apply'.rec = ri

\* What a step may do to the buckets at the provider, given who counts as
\* having approved the recommendation it processed.
FrameStep(approved) ==
    /\ DOMAIN cloud' = DOMAIN cloud
    /\ \A i \in DOMAIN cloud :
        /\ cloud'[i].name = cloud[i].name
        /\ cloud'[i].blobs = cloud[i].blobs
        /\ cloud'[i].storage_class # cloud[i].storage_class
            => /\ Processes
               /\ buckets_data[ai].name = cloud[i].name
               /\ AtRec.type = "storage_class"
               /\ approved
               /\ cloud'[i].storage_class = Target(AtRec)
        /\ cloud'[i].lifecycle_rules # cloud[i].lifecycle_rules
            => /\ Processes
               /\ buckets_data[ai].name = cloud[i].name
               /\ AtRec.type = "lifecycle"
               /\ approved
               /\ cloud'[i].lifecycle_rules = FixedRules
    /\ Processes
        => /\ last_apply'.asked = ~args.auto_approve
           /\ args.auto_approve => last_apply'.outcome # "skipped"

\* C6 as stated: the storage class of a bucket changes only by an approved
\* tier-change recommendation of that bucket, to its target, and its
\* lifecycle configuration only by an approved lifecycle-policy
\* recommendation, to the fixed rules; approved means --auto-approve, with
\* no question asked, or the answer 'y', any other answer declining.
ApplyFrameAnswerY ==
    [][FrameStep(args.auto_approve \/ last_apply'.response = "y")]_vars

\* C6 amended: as above, where the answer is compared after lower-casing,
\* so that 'Y' approves as 'y' does and any other answer declines.
ApplyFrame ==
    [][FrameStep(args.auto_approve \/ last_apply'.response \in {"y", "Y"})]_vars

\* C6 happens: the user answered 'Y' to a tier-change and the bucket's
\* default storage class is now the target.
ApplyFrameWitness ==
    /\ last_apply.asked
    /\ last_apply.response = "Y"
    /\ last_apply.outcome = "changed_storage_class"
    /\ \E i \in DOMAIN cloud :
        /\ cloud[i].name = last_apply.bucket
        /\ cloud[i].storage_class \in {NEARLINE, COLDLINE, ARCHIVE}

\* The recommendation r of entry a is still to come in the apply loop.
Pending(a, r) ==
    /\ pc = "apply_loop"
    /\ a <= Len(buckets_data)
    /\ r <= Len(buckets_data[a].recommendations)
    /\ a > ai \/ (a = ai /\ r >= ri)

\* The recommendation r of entry a was the last one processed: prompted
\* for unless --auto-approve is set, and applied, declined or failed.
Processed(a, r) ==
    /\ last_apply.entry = a
    /\ last_apply.rec = r
    /\ last_apply.asked = ~args.auto_approve
    /\ LET rec == buckets_data[a].recommendations[r]
           approved == Approved(args.auto_approve, last_apply.response)
           bucket == CHOOSE b \in {cloud[i] : i \in DOMAIN cloud} :
                         b.name = buckets_data[a].name
       IN  CASE ~approved -> last_apply.outcome = "skipped"
             [] last_apply.outcome = "error" -> TRUE
             [] rec.type = "storage_class" ->
                    /\ last_apply.outcome = "changed_storage_class"
                    /\ bucket.storage_class = Target(rec)
             [] rec.type = "lifecycle" ->
                    /\ last_apply.outcome = "added_lifecycle_rules"
                    /\ bucket.lifecycle_rules = FixedRules
             [] OTHER -> last_apply.outcome = "manual_review_required"

\* C5: whatever fails while a recommendation is applied, every
\* recommendation still to come, of the same bucket and of the later ones,
\* is processed, and the apply phase reaches its end.
ApplySurvivesFailures ==
    /\ \A a \in 1..MaxBuckets : \A r \in {1, 2} : Pending(a, r) ~> Processed(a, r)
    /\ (pc = "apply_loop") ~> ("recommendations_applied" \in messages)

\* C5 happens: with --auto-approve the tier-change of one bucket failed
\* (the bucket is still STANDARD), a later bucket's was applied, and the
\* phase ended.
ApplySurvivesFailuresWitness ==
    /\ args.auto_approve
    /\ "recommendations_applied" \in messages
    /\ \E i \in DOMAIN buckets_data : \E j \in DOMAIN buckets_data :
        /\ i < j
        /\ buckets_data[i].recommendations # <<>>
        /\ buckets_data[i].recommendations[1].type = "storage_class"
        /\ cloud[i].storage_class = STANDARD
        /\ last_apply.entry = j
        /\ last_apply.outcome = "changed_storage_class"

---------------------------------------------------------------------------
(* Properties of whole runs *)

\* C8: the report after a second analyze_storage on the unchanged buckets
\* has the same entries, recommendations, costs and totals as the report
\* after the first.
RerunSameReport ==
    (runs = 2 /\ pc = "display")
        => Report(buckets_data, total_current_cost, total_optimized_cost) = first_report

\* C10: a run on a project without buckets is no error: "no buckets found"
\* is reported, the report is empty with both totals 0, that report is what
\* --export writes, --apply changes nothing, and main returns 0.
EmptyProjectRun ==
    (pc = "exit" /\ cloud = <<>> /\ "error" \notin messages)
        => /\ "no_buckets_found" \in messages
           /\ buckets_data = <<>>
           /\ total_current_cost = 0
           /\ total_optimized_cost = 0
           /\ args.export => export_file = <<Report(<<>>, 0, 0)>>
           /\ last_apply = NoApply
           /\ exit_code = 0

=============================================================================
